---- MODULE Spec2Model ----
(***************************************************************************)
(* Travel360 front end: the authentication context, the route guards, the  *)
(* HTTP client with its interceptors, and the pages that issue requests    *)
(* (login, flight search, booking, user management).                       *)
(***************************************************************************)
EXTENDS Integers, Sequences, FiniteSets, TLC

\* ------------------------------------------------------------------ bounds
\* Number of HTTP requests one behaviour may issue.
MaxReq == 3

\* ------------------------------------------------------------ domain data
\* UserRole (types)
Roles == {"CUSTOMER", "OPERATOR", "ADMINISTRATOR"}

\* user: null
NoUser == [id |-> 0, role |-> "none"]

\* The accounts the backend knows, one per role.
Accounts ==
  { [id |-> 1, role |-> "CUSTOMER"],
    [id |-> 2, role |-> "OPERATOR"],
    [id |-> 3, role |-> "ADMINISTRATOR"] }

\* localStorage.getItem(...) === null
Absent == "absent"

\* The JWT the backend issues for an account.
TokenOf(u) ==
  CASE u.id = 1 -> "jwt1"
    [] u.id = 2 -> "jwt2"
    [] u.id = 3 -> "jwt3"

Tokens == {"jwt1", "jwt2", "jwt3"}

\* The account a JWT belongs to (server side).
AccountOfToken(t) == CHOOSE u \in Accounts : TokenOf(u) = t

\* A JavaScript string used as a condition: null and "" are falsy.
Truthy(s) == s # Absent /\ s # ""

\* ------------------------------------------------------------------ routes
PublicPaths == {"/login", "/register"}
OpenPaths == {"/search", "/unauthorized", "/404"}
PlainProtectedPaths == {"/", "/book", "/my-bookings", "/booking"}
StaffPaths ==
  {"/dashboard", "/manage/flights", "/manage/bookings", "/manage/airports",
   "/manage/airplanes", "/reports"}
AdminPaths == {"/manage/users"}
RolePaths == StaffPaths \cup AdminPaths
ProtectedPaths == PlainProtectedPaths \cup RolePaths
Paths == PublicPaths \cup OpenPaths \cup ProtectedPaths

\* The locations the behaviours visit: one of each kind of route element
\* (the other staff routes mount the element /reports mounts, /booking the
\* one /my-bookings mounts, /404 the one /unauthorized mounts).
Destinations ==
  {"/login", "/register", "/", "/search", "/book", "/my-bookings",
   "/dashboard", "/reports", "/manage/users", "/unauthorized"}

\* Variant: the reports route is declared for operators only.
RequiredRoles_OperatorOnlyReports(p) ==
  IF p = "/reports" THEN {"OPERATOR"}
  ELSE IF p \in StaffPaths THEN {"OPERATOR", "ADMINISTRATOR"}
  ELSE IF p \in AdminPaths THEN {"ADMINISTRATOR"}
  ELSE {}

\* requiredRoles of each <Route> element of AppRouter
RequiredRoles(p) ==
  IF p \in StaffPaths THEN {"OPERATOR", "ADMINISTRATOR"}
  ELSE IF p \in AdminPaths THEN {"ADMINISTRATOR"}
  ELSE {}

\* fallback of each ProtectedRoute element
FallbackOf(p) == IF p = "/" THEN "/search" ELSE "/login"

\* What a route element renders: the page, a spinner, or a <Navigate>.
Shown(v) == [view |-> v, to |-> ""]
GoTo(p) == [view |-> "navigate", to |-> p]

\* Variant: the guard forgets the role check.
ProtectedRoute_NoRoleCheck(ctx, requiredRoles, fallback) ==
  IF ctx.isLoading THEN Shown("spinner")
  ELSE IF ~ctx.isAuthenticated THEN GoTo(fallback)
  ELSE Shown("children")

\* Variant: the guard forgets the authentication check.
ProtectedRoute_NoAuthCheck(ctx, requiredRoles, fallback) ==
  IF ctx.isLoading THEN Shown("spinner")
  ELSE IF requiredRoles # {} /\ ctx.user # NoUser
          /\ ctx.user.role \notin requiredRoles
       THEN GoTo("/unauthorized")
  ELSE Shown("children")

ProtectedRoute(ctx, requiredRoles, fallback) ==
  IF ctx.isLoading THEN Shown("spinner")
  ELSE IF ~ctx.isAuthenticated THEN GoTo(fallback)
  ELSE IF requiredRoles # {} /\ ctx.user # NoUser
          /\ ctx.user.role \notin requiredRoles
       THEN GoTo("/unauthorized")
  ELSE Shown("children")

PublicRoute(ctx) ==
  IF ctx.isLoading THEN Shown("spinner")
  ELSE IF ctx.isAuthenticated THEN GoTo("/dashboard")
  ELSE Shown("children")

\* The element AppRouter mounts for a path.
AppRouter(p, ctx) ==
  IF p \in PublicPaths THEN PublicRoute(ctx)
  ELSE IF p \in ProtectedPaths
       THEN ProtectedRoute(ctx, RequiredRoles(p), FallbackOf(p))
  ELSE Shown("children")

\* AdminLayout, which wraps the dashboard page, checks the role once more.
AdminLayout(ctx) ==
  IF ~ctx.isAuthenticated \/ ctx.user = NoUser
     \/ ctx.user.role \notin {"ADMINISTRATOR", "OPERATOR"}
  THEN GoTo("/unauthorized")
  ELSE Shown("children")

RouteElement(p, ctx) ==
  LET r == AppRouter(p, ctx)
  IN IF p = "/dashboard" /\ r.view = "children" THEN AdminLayout(ctx) ELSE r

\* Follow <Navigate replace> elements until a route renders something.
RECURSIVE Resolve(_, _, _)
Resolve(p, ctx, fuel) ==
  LET r == RouteElement(p, ctx)
  IN IF r.view = "navigate" /\ fuel > 0 THEN Resolve(r.to, ctx, fuel - 1) ELSE p

Settle(p, ctx) == Resolve(p, ctx, 4)

\* The page content of path p is on screen.
ContentShown(p, ctx) == RouteElement(p, ctx).view = "children"

\* navigationItems of AppLayout, filtered as filteredNavigation does
NavItems ==
  { [href |-> "/search", roles |-> Roles, requireAuth |-> FALSE],
    [href |-> "/my-bookings", roles |-> Roles, requireAuth |-> TRUE],
    [href |-> "/dashboard", roles |-> {"OPERATOR", "ADMINISTRATOR"}, requireAuth |-> TRUE],
    [href |-> "/manage/flights", roles |-> {"OPERATOR", "ADMINISTRATOR"}, requireAuth |-> TRUE],
    [href |-> "/manage/bookings", roles |-> {"OPERATOR", "ADMINISTRATOR"}, requireAuth |-> TRUE],
    [href |-> "/manage/airports", roles |-> {"OPERATOR", "ADMINISTRATOR"}, requireAuth |-> TRUE],
    [href |-> "/manage/users", roles |-> {"ADMINISTRATOR"}, requireAuth |-> TRUE],
    [href |-> "/reports", roles |-> {"OPERATOR", "ADMINISTRATOR"}, requireAuth |-> TRUE] }

filteredNavigation(ctx) ==
  { item \in NavItems :
      IF item.requireAuth /\ ~ctx.isAuthenticated THEN FALSE
      ELSE IF ctx.user # NoUser THEN ctx.user.role \in item.roles
      ELSE ~item.requireAuth }

\* navigationItems and bottomNavigationItems of SideNavigationPanel
SideNavItems ==
  { [href |-> "/dashboard", roles |-> {"ADMINISTRATOR", "OPERATOR"}],
    [href |-> "/manage/flights", roles |-> {"ADMINISTRATOR", "OPERATOR"}],
    [href |-> "/manage/bookings", roles |-> {"ADMINISTRATOR", "OPERATOR"}],
    [href |-> "/manage/users", roles |-> {"ADMINISTRATOR"}],
    [href |-> "/manage/airports", roles |-> {"ADMINISTRATOR", "OPERATOR"}],
    [href |-> "/manage/airplanes", roles |-> {"ADMINISTRATOR", "OPERATOR"}],
    [href |-> "/reports", roles |-> {"ADMINISTRATOR", "OPERATOR"}],
    [href |-> "/finance", roles |-> {"ADMINISTRATOR"}],
    [href |-> "/system", roles |-> {"ADMINISTRATOR"}],
    [href |-> "/settings", roles |-> {"ADMINISTRATOR", "OPERATOR"}],
    [href |-> "/help", roles |-> {"ADMINISTRATOR", "OPERATOR"}] }

sideFilteredNavigation(ctx) ==
  { item \in SideNavItems :
      IF ctx.user # NoUser THEN ctx.user.role \in item.roles ELSE FALSE }

\* ------------------------------------------------------------------- state
VARIABLES
  authState,   \* AuthProvider's useState: user, token, isAuthenticated, isLoading
  ls,          \* localStorage: auth_token and user_data
  path,        \* window.location.pathname
  page,        \* useState of the page component that is mounted
  inflight,    \* HTTP requests sent and not yet answered
  calls,       \* service calls made so far
  sends,       \* HTTP requests put on the wire so far
  timer,       \* the interceptor's setTimeout(..., 100) is pending
  ev,          \* the last event: UI action or response, and what it showed
  fsp,         \* FlightSearchPage's useState with the result data and the filters
  flow,        \* FlightSearchResults and BookingPage: from a result card to the booking
  pager        \* a paginated list page: currentPage and totalPages

vars == <<authState, ls, path, page, inflight, calls, sends, timer, ev, fsp, flow, pager>>

\* user_data: absent, the LoginResponse JSON login() writes (userId, no id),
\* or the User JSON initializeAuth()/refreshUser() write (id).
NoData == [shape |-> "absent", id |-> 0, role |-> "none"]
LoginData(u) == [shape |-> "login", id |-> u.id, role |-> u.role]
UserData(u) == [shape |-> "user", id |-> u.id, role |-> u.role]

LoggedOut == [user |-> NoUser, token |-> Absent, isAuthenticated |-> FALSE, isLoading |-> FALSE]

\* useState defaults of the page components
PageInit ==
  [ error |-> "",               \* error banner state (setError)
    isLoading |-> FALSE,         \* FlightSearchPage isLoading
    hasSearched |-> FALSE,       \* FlightSearchPage hasSearched
    searchResults |-> 0,         \* FlightSearchPage searchResults (0: null)
    flight |-> FALSE,            \* BookingPage flight loaded
    isBooking |-> FALSE,         \* BookingPage isBooking
    usersLoaded |-> FALSE,       \* UserManagementPage users table filled
    selectedUser |-> 0,          \* UserManagementPage selectedUser (0: null)
    isDeleteDialogOpen |-> FALSE,
    isDetailsDialogOpen |-> FALSE ]

\* Rows of the user table an administrator can act on.
UserRows == {1, 2}

\* Request kinds: which service call put the request on the wire.
AuthKinds == {"login", "logout", "me_init", "me_refresh"}
PageKinds == {"airports", "search", "flight", "booking", "users", "deleteUser"}
Kinds == AuthKinds \cup PageKinds \cup {"manifest"}

\* Response statuses: success body, success:false body, HTTP 401, another
\* HTTP error status, no response at all.
Statuses == {"ok", "soft", "h401", "h500", "net"}
Failures == {"soft", "h401", "h500", "net"}
Thrown == {"h401", "h500", "net"}

\* The message text of the server's response body ("" when it has none).
ServerMsg == "message from server"
Msgs == {"", ServerMsg}

NoEvent == [name |-> "start", kind |-> "none", status |-> "none", msg |-> "",
            live |-> FALSE, ui |-> ""]

\* UI events are told apart only where a property is about them.
UiEvent(n) == [NoEvent EXCEPT !.name = n]

\* ------------------------------------------------------------- ApiService
\* Variant: only auth_token is removed, user_data stays.
removeAuthToken_TokenOnly(store) == [store EXCEPT !.token = Absent]

\* removeAuthToken(): both keys go.
removeAuthToken(store) == [token |-> Absent, user |-> NoData]

\* setAuthToken(token)
setAuthToken(store, t) == [store EXCEPT !.token = t]

\* Request interceptor: the Authorization header of an axios request
\* ("none": no header, otherwise the bearer credential).
RequestInterceptor(store) == IF Truthy(store.token) THEN store.token ELSE "none"

\* downloadPassengerManifest() builds its header itself, for fetch().
ManifestHeader(store) == IF store.token = Absent THEN "null" ELSE store.token

\* Variant: a 401 arms the redirect but leaves localStorage as it is.
ResponseInterceptor_KeepsStorage(r, status, pathname, store, tmr) ==
  IF status = "h401" /\ ~r.retry /\ pathname \notin PublicPaths
  THEN [store |-> store, timer |-> TRUE, resend |-> {}]
  ELSE [store |-> store, timer |-> tmr, resend |-> {}]

\* Variant: a 401 is answered by sending the request once more.
ResponseInterceptor_Retry(r, status, pathname, store, tmr) ==
  IF status = "h401" /\ ~r.retry
  THEN [store |-> store, timer |-> tmr, resend |-> {[r EXCEPT !.retry = TRUE]}]
  ELSE [store |-> store, timer |-> tmr, resend |-> {}]

\* Response interceptor on an error: what it does to localStorage, whether
\* it arms the redirect timer, and the requests it sends again.
ResponseInterceptor(r, status, pathname, store, tmr) ==
  IF status = "h401" /\ ~r.retry /\ pathname \notin PublicPaths
  THEN [store |-> removeAuthToken(store), timer |-> TRUE, resend |-> {}]
  ELSE [store |-> store, timer |-> tmr, resend |-> {}]

\* handleError(error).message
handleError(status, msg) ==
  IF status = "net" THEN "Network error. Please check your connection."
  ELSE IF msg # "" THEN msg
  ELSE "An error occurred"

\* `x || fallback` on strings
OrElse(x, fallback) == IF x # "" THEN x ELSE fallback

\* AuthService.getStoredUser(): the stored user, or null after removing
\* user_data that lacks id/username/email.
getStoredUser(store) ==
  IF store.user.shape = "user"
  THEN [user |-> [id |-> store.user.id, role |-> store.user.role], store |-> store]
  ELSE [user |-> NoUser, store |-> [store EXCEPT !.user = NoData]]

NewRequest(n, k, h, a, u) ==
  [id |-> n, kind |-> k, hdr |-> h, arg |-> a, user |-> u, live |-> TRUE, retry |-> FALSE]

\* The page whose content is on screen ("none" under a spinner).
MountedAt(p, ctx) == IF ContentShown(p, ctx) THEN p ELSE "none"
Mounted == MountedAt(path, authState)

\* The request a page's mount effect issues.
MountKind(p) ==
  CASE p = "/search" -> "airports"
    [] p = "/book" -> "flight"
    [] p = "/manage/users" -> "users"
    [] OTHER -> "none"

Orphan(r) == IF r.kind \in PageKinds THEN [r EXCEPT !.live = FALSE] ELSE r

\* Every handler ends the same way: React re-renders with the new auth
\* state, <Navigate> elements move the location, a page that went off
\* screen loses its state, and a page that came on screen runs its mount
\* effect.  `own` is the sequence of requests the handler itself issued,
\* `resend` the requests the response interceptor put on the wire again.
Commit(ctx, store, target, pg, reqs, resend, own, tmr, e, reload) ==
  \E c \in {ctx} : \E st0 \in {store} : \E ow \in {own} :
  \E pth \in {Settle(target, c)} :
  \E m2 \in {MountedAt(pth, c)} :
  \E remount \in {reload \/ m2 # Mounted} :
  \E issued \in {IF ~remount \/ MountKind(m2) = "none" THEN ow
                 ELSE <<[kind |-> MountKind(m2), hdr |-> RequestInterceptor(st0),
                         arg |-> 0, user |-> NoUser]>> \o ow} :
  LET kept == IF remount THEN {Orphan(r) : r \in reqs} ELSE reqs
      n == Len(issued)
      new == { NewRequest(sends + i, issued[i].kind, issued[i].hdr, issued[i].arg, issued[i].user) :
                 i \in 1..n }
  IN /\ authState' = c
     /\ ls' = st0
     /\ path' = pth
     /\ page' = IF remount THEN PageInit ELSE pg
     /\ inflight' = kept \cup resend \cup new
     /\ calls' = calls + n
     /\ sends' = sends + n + Cardinality(resend)
     /\ timer' = tmr
     /\ ev' = e
     /\ UNCHANGED <<fsp, flow, pager>>

Req(k, store, a, u) == [kind |-> k, hdr |-> RequestInterceptor(store), arg |-> a, user |-> u]

\* A step that may issue n requests is taken only while MaxReq allows them.
Budget(n) == sends + n <= MaxReq

\* ------------------------------------------- FlightSearchPage, the data
\* Spec carries the search results as page.searchResults (0: null, 1: data).
\* The definitions below carry the data itself and the filter values; the
\* specification SearchSpec runs them.

\* Longest list of direct flights a response carries.
MaxFlights == 2

SeatClasses == {"ECONOMY", "BUSINESS", "FIRST"}

\* Flights the backend can return.  Times are hours since midnight of the
\* first day.
FlightPool ==
  { [id |-> 1, economyClassPrice |-> 100, businessClassPrice |-> 300, firstClassPrice |-> 500,
     availableEconomyClassSeats |-> 5, availableBusinessClassSeats |-> 0,
     availableFirstClassSeats |-> 1, departureTime |-> 8, arrivalTime |-> 10],
    [id |-> 2, economyClassPrice |-> 200, businessClassPrice |-> 250, firstClassPrice |-> 600,
     availableEconomyClassSeats |-> 0, availableBusinessClassSeats |-> 2,
     availableFirstClassSeats |-> 0, departureTime |-> 30, arrivalTime |-> 35],
    [id |-> 3, economyClassPrice |-> 100, businessClassPrice |-> 400, firstClassPrice |-> 450,
     availableEconomyClassSeats |-> 3, availableBusinessClassSeats |-> 3,
     availableFirstClassSeats |-> 3, departureTime |-> 20, arrivalTime |-> 21] }

\* Transit options the backend can return (flights: the number of legs).
TransitPool ==
  { [id |-> 1, totalPrice |-> 150, flights |-> 2],
    [id |-> 2, totalPrice |-> 300, flights |-> 3] }

\* Lists without repetition, of length at most n.
ListsUpTo(S, n) ==
  UNION { { q \in [1..k -> S] : \A i, j \in 1..k : q[i] = q[j] => i = j } : k \in 0..n }

\* searchResults: null
NullResults == [isNull |-> TRUE, directFlights |-> <<>>, transitFlights |-> <<>>]

\* response.data of a successful search (NullResults: the body has no data)
ResultSets ==
  { [isNull |-> FALSE, directFlights |-> d, transitFlights |-> t] :
      d \in ListsUpTo(FlightPool, MaxFlights), t \in ListsUpTo(TransitPool, 1) }
  \cup {NullResults}

\* useState default of filters; -1 stands for the empty time string
DefaultFilters ==
  [maxPrice |-> 0, seatClass |-> "none",
   departureTimeRange |-> [start |-> -1, end |-> -1],
   maxStops |-> 2, sortBy |-> "price"]

\* The values the filter controls are set to.
FilterPrices == {0, 150}
FilterRanges == {[start |-> -1, end |-> -1], [start |-> 6, end |-> -1], [start |-> 6, end |-> 12]}
FilterStops == {0, 1, 2}
SortKeys == {"price", "duration", "departure"}

\* The search criteria the form can submit, by number (0: the empty
\* criteria of useState).  SearchSpec submits one; CriteriaSpec all.
MaxCriteria == 3
Criteria == 1..MaxCriteria

\* resultsFor is not state of the page: it records the criteria the server
\* answered with the stored searchResults (0: nothing stored).
FspInit ==
  [searchResults |-> NullResults, filters |-> DefaultFilters,
   isLoading |-> FALSE, hasSearched |-> FALSE, error |-> "",
   filteredResults |-> NullResults, last |-> "mount",
   searchCriteria |-> 0, resultsFor |-> 0]

\* The price the filter and the sort read for a seat class.
PriceFor(flight, seatClass) ==
  IF seatClass = "FIRST" THEN flight.firstClassPrice
  ELSE IF seatClass = "BUSINESS" THEN flight.businessClassPrice
  ELSE flight.economyClassPrice

SeatsFor(flight, seatClass) ==
  IF seatClass = "FIRST" THEN flight.availableFirstClassSeats
  ELSE IF seatClass = "BUSINESS" THEN flight.availableBusinessClassSeats
  ELSE flight.availableEconomyClassSeats

\* new Date(t).toTimeString().slice(0, 5): the time of day
TimeOfDay(t) == t % 24

\* Variant: the callback's verdict is ignored.
Filter_KeepsAll(arr, keep) == arr

\* Array.prototype.filter
RECURSIVE Filter(_, _)
Filter(arr, keep) ==
  IF arr = <<>> THEN <<>>
  ELSE IF Head(arr) \in keep THEN <<Head(arr)>> \o Filter(Tail(arr), keep)
  ELSE Filter(Tail(arr), keep)

\* sortFunctions[sortBy](a, b) as a key: a sorts before b when its key is smaller
SortKey(flight, sortBy, seatClass) ==
  IF sortBy = "price" THEN PriceFor(flight, seatClass)
  ELSE IF sortBy = "departure" THEN flight.departureTime
  ELSE flight.arrivalTime - flight.departureTime

\* Variant: the comparator is never consulted.
Insert_Append(x, arr, sortBy, seatClass) == arr \o <<x>>

\* Array.prototype.sort: stable
RECURSIVE Insert(_, _, _, _)
Insert(x, arr, sortBy, seatClass) ==
  IF arr = <<>> THEN <<x>>
  ELSE IF SortKey(x, sortBy, seatClass) < SortKey(Head(arr), sortBy, seatClass)
       THEN <<x>> \o arr
  ELSE <<Head(arr)>> \o Insert(x, Tail(arr), sortBy, seatClass)

RECURSIVE Sort(_, _, _)
Sort(arr, sortBy, seatClass) ==
  IF arr = <<>> THEN <<>>
  ELSE Insert(arr[Len(arr)], Sort(SubSeq(arr, 1, Len(arr) - 1), sortBy, seatClass),
              sortBy, seatClass)

\* Variant: the local variable is the stored array itself.
SpreadCopy_Alias(arr) == [items |-> arr, aliased |-> TRUE]

\* [...arr]: a new array with the same items; aliased tells whether the
\* array object is the one the state holds.
SpreadCopy(arr) == [items |-> arr, aliased |-> FALSE]

\* getFilteredResults(): its return value, and searchResults as the call
\* leaves it (sort() works in place on whatever array it is given).
getFilteredResults(sr, f) ==
  IF sr.isNull THEN [result |-> NullResults, stored |-> sr]
  ELSE
    LET d0 == SpreadCopy(sr.directFlights)
        t0 == SpreadCopy(sr.transitFlights)
        d1 == IF f.maxPrice > 0
              THEN [items |-> Filter(d0.items, {x \in FlightPool : PriceFor(x, f.seatClass) <= f.maxPrice}),
                    aliased |-> FALSE]
              ELSE d0
        t1 == IF f.maxPrice > 0
              THEN [items |-> Filter(t0.items, {x \in TransitPool : x.totalPrice <= f.maxPrice}),
                    aliased |-> FALSE]
              ELSE t0
        d2 == IF f.seatClass # "none"
              THEN [items |-> Filter(d1.items, {x \in FlightPool : SeatsFor(x, f.seatClass) > 0}),
                    aliased |-> FALSE]
              ELSE d1
        d3 == IF f.departureTimeRange.start # -1 /\ f.departureTimeRange.end # -1
              THEN [items |-> Filter(d2.items,
                                     {x \in FlightPool :
                                        /\ TimeOfDay(x.departureTime) >= f.departureTimeRange.start
                                        /\ TimeOfDay(x.departureTime) <= f.departureTimeRange.end}),
                    aliased |-> FALSE]
              ELSE d2
        sorted == Sort(d3.items, f.sortBy, f.seatClass)
    IN [result |-> [isNull |-> FALSE, directFlights |-> sorted,
                    transitFlights |-> Filter(t1.items, {x \in TransitPool : x.flights - 1 <= f.maxStops})],
        stored |-> IF d3.aliased THEN [sr EXCEPT !.directFlights = sorted] ELSE sr]

\* totalResults
totalResults(filtered) ==
  IF filtered.isNull THEN 0
  ELSE Len(filtered.directFlights) + Len(filtered.transitFlights)

\* The "No flights found" card is on screen.
NoResultsShown(f) == f.hasSearched /\ ~f.isLoading /\ totalResults(f.filteredResults) = 0

\* The component function runs again after a state change: it calls
\* getFilteredResults() and renders from what it returns.
Render(f, what) ==
  LET g == getFilteredResults(f.searchResults, f.filters)
  IN [f EXCEPT !.filteredResults = g.result, !.searchResults = g.stored, !.last = what]

\* The search page's handlers touch nothing but the page's own state.
FspFrame == UNCHANGED <<authState, ls, path, page, inflight, calls, sends, timer, ev, flow, pager>>

\* handleSearch(criteria) up to the await (the submit button is disabled
\* while loading)
fspSubmit(criteria) ==
  /\ ~fsp.isLoading
  /\ fsp' = Render([fsp EXCEPT !.isLoading = TRUE, !.error = "",
                                !.searchCriteria = criteria], "submit")
  /\ FspFrame

fspSearch == fspSubmit(1)

\* Variant: hasSearched is not set.
fspSearchOk_NoHasSearched(f, data) ==
  [f EXCEPT !.searchResults = data, !.isLoading = FALSE]

\* handleSearch after the await, response.success
fspSearchOk(f, data) ==
  [f EXCEPT !.searchResults = data, !.hasSearched = TRUE, !.isLoading = FALSE]

\* handleSearch after the await, the other branches
fspSearchFailed(f, text) == [f EXCEPT !.error = text, !.isLoading = FALSE]

\* The answer is the server's answer to the criteria of the one call that
\* is awaited.
fspAnswered(data) ==
  /\ fsp.isLoading
  /\ fsp' = Render([fspSearchOk(fsp, data) EXCEPT !.resultsFor = fsp.searchCriteria],
                   "searchOk")
  /\ FspFrame

fspSearchSucceeds == \E data \in ResultSets : fspAnswered(data)

fspSearchFails ==
  /\ fsp.isLoading
  /\ \E m \in Msgs :
       fsp' = Render(fspSearchFailed(fsp, OrElse(m, "Failed to search flights")), "searchFailed")
  /\ FspFrame

\* handleFilterChange(newFilters): one control of FlightFilters changes
handleFilterChange ==
  \E nf \in { [fsp.filters EXCEPT !.maxPrice = v] : v \in FilterPrices }
       \cup { [fsp.filters EXCEPT !.seatClass = v] : v \in SeatClasses \cup {"none"} }
       \cup { [fsp.filters EXCEPT !.departureTimeRange = v] : v \in FilterRanges }
       \cup { [fsp.filters EXCEPT !.maxStops = v] : v \in FilterStops }
       \cup { [fsp.filters EXCEPT !.sortBy = v] : v \in SortKeys } :
    /\ nf # fsp.filters
    /\ fsp.hasSearched /\ ~fsp.isLoading
    /\ fsp' = Render([fsp EXCEPT !.filters = nf], "filter")
    /\ FspFrame

\* ------------------------------------------------- paginated list pages
\* Largest page count the backend reports.
MaxPages == 4

\* BookingManagementPage, the flight management page, UserManagementPage
ListPages == {"bookings", "flights", "users"}

\* Not-a-number, as Math.ceil(total / undefined) gives.
NaN == -1

\* useState defaults of currentPage and totalPages
PagerMount(list) ==
  [list |-> list, currentPage |-> IF list = "users" THEN 0 ELSE 1,
   totalPages |-> 1, last |-> "mount"]

PagerIdle == PagerMount("bookings")

pageSize == 10

\* response.pagination as the backend may send it: missing, or with its
\* page number and total; size 0 stands for a body without a size field
\* (PaginatedResponse names the field limit).
Paginations ==
  {[present |-> FALSE, page |-> 0, total |-> 0, size |-> 0]} \cup
  [present : {TRUE}, page : 0..MaxPages,
   total : {0} \cup {pageSize * k - 5 : k \in 1..MaxPages},
   size : {0, pageSize}]

\* The argument of setTotalPages after a successful load (Math.ceil of the
\* quotient, for a size above 0).
totalPagesFrom(list, pg) ==
  IF list = "users"
  THEN IF pg.present THEN pg.page ELSE 1
  ELSE IF pg.present /\ pg.page # 0
       THEN IF pg.size = 0 THEN NaN ELSE (pg.total + pg.size - 1) \div pg.size
       ELSE 1

\* {totalPages > 1 && ...}: the Previous and Next buttons are rendered.
pagerShown(pgr) == pgr.totalPages # NaN /\ pgr.totalPages > 1

PagerFrame ==
  UNCHANGED <<authState, ls, path, page, inflight, calls, sends, timer, ev, fsp, flow>>

\* Previous, disabled on page 1
Previous ==
  /\ pagerShown(pager) /\ pager.currentPage # 1
  /\ pager' = [pager EXCEPT !.currentPage = IF @ - 1 >= 1 THEN @ - 1 ELSE 1, !.last = "previous"]
  /\ PagerFrame

\* Next, disabled on the last page
NextPage ==
  /\ pagerShown(pager) /\ pager.currentPage # pager.totalPages
  /\ pager' = [pager EXCEPT !.currentPage = IF @ + 1 <= pager.totalPages THEN @ + 1
                                         ELSE pager.totalPages, !.last = "next"]
  /\ PagerFrame

\* The list was loaded again and the answer is a success.
ListLoaded ==
  \E pg \in Paginations :
    /\ pager' = [pager EXCEPT !.totalPages = totalPagesFrom(pager.list, pg), !.last = "load"]
    /\ PagerFrame

\* ------------------------------- FlightSearchResults and BookingPage
\* Largest number of passengers a search asks for (the form allows 1..9).
MaxPassengers == 2

FlightStatuses == {"SCHEDULED", "CANCELLED"}

\* A Flight with its status field.
WithStatus(f, s) ==
  [k \in DOMAIN f \cup {"status"} |-> IF k = "status" THEN s ELSE f[k]]

\* The flights a result card can show.
CardFlights == {WithStatus(f, s) : f \in FlightPool, s \in FlightStatuses}

\* Transit options: two legs each.
TransitOptions ==
  {[flights |-> <<ab[1], ab[2]>>,
    totalPrice |-> ab[1].economyClassPrice + ab[2].economyClassPrice] :
     ab \in {x \in CardFlights \X CardFlights : x[2].id = (x[1].id % 3) + 1}}

SearchCriteria ==
  [seatClass : SeatClasses \cup {"none"}, passengers : 1..MaxPassengers]

NoFlight == [id |-> 0]

\* The results are on screen for criteria c; signedIn: useAuth().user.
FlowStart(signedIn, c) ==
  [user |-> signedIn, searchCriteria |-> c, at |-> "results",
   flightId |-> 0,                 \* useParams().flightId
   legs |-> <<>>,                  \* the flights of the card that was chosen
   flight |-> NoFlight,            \* BookingPage flight
   selectedSeatClass |-> "ECONOMY",
   isBooking |-> FALSE,
   requests |-> <<>>]              \* bodies of POST /bookings sent

FlowIdle == FlowStart(FALSE, [seatClass |-> "none", passengers |-> 1])

FlowFrame ==
  UNCHANGED <<authState, ls, path, page, inflight, calls, sends, timer, ev, fsp, pager>>

\* FlightSearchResults.handleBookFlight(flightId), from a card showing legs
resultsHandleBookFlight(fl, flightId, legs) ==
  IF ~fl.user THEN [fl EXCEPT !.at = "login"]
  ELSE [fl EXCEPT !.at = "book", !.flightId = flightId, !.legs = legs]

\* renderDirectFlightCard: isAvailable
cardIsAvailable(f, c) == SeatsFor(f, c.seatClass) >= c.passengers

\* "Select Flight" on a direct flight card, unless disabled
SelectFlight ==
  \E f \in CardFlights :
    /\ flow.at = "results"
    /\ ~(~cardIsAvailable(f, flow.searchCriteria) \/ f.status = "CANCELLED")
    /\ flow' = resultsHandleBookFlight(flow, f.id, <<f>>)
    /\ FlowFrame

\* "Select Flights" on a transit card: handleBookFlight(option.flights[0].id)
SelectFlights ==
  \E option \in TransitOptions :
    /\ flow.at = "results"
    /\ flow' = resultsHandleBookFlight(flow, option.flights[1].id, option.flights)
    /\ FlowFrame

\* BookingPage.loadFlightDetails succeeds: GET /flights/:flightId
FlightLoaded ==
  /\ flow.at = "book" /\ flow.flight = NoFlight
  /\ \E f \in {x \in CardFlights : x.id = flow.flightId} :
       flow' = [flow EXCEPT !.flight = f,
                            !.selectedSeatClass =
                               IF flow.searchCriteria.seatClass # "none"
                               THEN flow.searchCriteria.seatClass ELSE @]
  /\ FlowFrame

\* BookingPage: passengers
bookingPassengers(fl) == fl.searchCriteria.passengers

\* BookingPage: totalPrice
bookingTotalPrice(fl) == PriceFor(fl.flight, fl.selectedSeatClass) * bookingPassengers(fl)

\* BookingPage: a seat class row is clicked
SelectSeatClass ==
  \E c \in SeatClasses :
    /\ flow.at = "book" /\ flow.flight # NoFlight /\ ~flow.isBooking
    /\ SeatsFor(flow.flight, c) >= bookingPassengers(flow)
    /\ c # flow.selectedSeatClass
    /\ flow' = [flow EXCEPT !.selectedSeatClass = c]
    /\ FlowFrame

\* BookingPage.handleBookFlight: bookingData
bookingData(fl) ==
  [customerId |-> 1, flightId |-> fl.flight.id, seatClass |-> fl.selectedSeatClass]

\* "Book Flight", unless disabled: one POST /bookings
ConfirmBooking ==
  /\ flow.at = "book" /\ flow.flight # NoFlight /\ flow.user
  /\ ~(SeatsFor(flow.flight, flow.selectedSeatClass) < bookingPassengers(flow) \/ flow.isBooking)
  /\ flow' = [flow EXCEPT !.isBooking = TRUE, !.requests = Append(@, bookingData(flow))]
  /\ FlowFrame

\* The results of one search, shown to a visitor or to a signed-in user.
FlowInit ==
  /\ authState = LoggedOut
  /\ ls = [token |-> Absent, user |-> NoData]
  /\ path = "/search"
  /\ page = PageInit
  /\ inflight = {}
  /\ calls = 0
  /\ sends = 0
  /\ timer = FALSE
  /\ ev = NoEvent
  /\ fsp = FspInit
  /\ pager = PagerIdle
  /\ \E signedIn \in BOOLEAN : \E c \in SearchCriteria : flow = FlowStart(signedIn, c)

FlowNext ==
  \/ SelectFlight
  \/ SelectFlights
  \/ FlightLoaded
  \/ SelectSeatClass
  \/ ConfirmBooking

FlowSpec == FlowInit /\ [][FlowNext]_vars

\* A list page, mounted.
PagerInit ==
  /\ authState = LoggedOut
  /\ ls = [token |-> Absent, user |-> NoData]
  /\ path = "/manage/bookings"
  /\ page = PageInit
  /\ inflight = {}
  /\ calls = 0
  /\ sends = 0
  /\ timer = FALSE
  /\ ev = NoEvent
  /\ fsp = FspInit
  /\ flow = FlowIdle
  /\ \E list \in ListPages : pager = PagerMount(list)

PagerNext ==
  \/ Previous
  \/ NextPage
  \/ ListLoaded

PagerSpec == PagerInit /\ [][PagerNext]_vars

\* ----------------------------------------------------- FlightFilters
\* FlightFilters.updateFilter(key, value): the object it hands to
\* onFiltersChange, built from the filters prop of the render that made it.
updateFilter(filters, key, value) == [filters EXCEPT ![key] = value]

\* The quick filter buttons and the updateFilter calls of their onClick.
QuickFilters == {"Cheapest Economy", "Fastest Direct", "Business Class"}

quickFilterCalls(name) ==
  CASE name = "Cheapest Economy" -> << <<"sortBy", "price">>, <<"seatClass", "ECONOMY">> >>
    [] name = "Fastest Direct" -> << <<"sortBy", "duration">>, <<"maxStops", 0>> >>
    [] name = "Business Class" -> << <<"seatClass", "BUSINESS">>, <<"sortBy", "departure">> >>

\* The filters state after the calls of one onClick: every call spreads
\* the same prop, and handleFilterChange's setFilters(newFilters) replaces
\* the state each time.
RECURSIVE setFilters(_, _, _)
setFilters(state, prop, todo) ==
  IF todo = <<>> THEN state
  ELSE setFilters(updateFilter(prop, Head(todo)[1], Head(todo)[2]), prop, Tail(todo))

\* A quick filter button is pressed.
handleQuickFilter ==
  \E name \in QuickFilters :
    /\ fsp.hasSearched /\ ~fsp.isLoading
    /\ fsp' = Render([fsp EXCEPT !.filters = setFilters(fsp.filters, fsp.filters,
                                                        quickFilterCalls(name))], name)
    /\ FspFrame

\* The visitor's search page, mounted and left alone by everything else.
SearchInit ==
  /\ authState = LoggedOut
  /\ ls = [token |-> Absent, user |-> NoData]
  /\ path = "/search"
  /\ page = PageInit
  /\ inflight = {}
  /\ calls = 0
  /\ sends = 0
  /\ timer = FALSE
  /\ ev = NoEvent
  /\ fsp = FspInit
  /\ flow = FlowIdle
  /\ pager = PagerIdle

SearchNext ==
  \/ fspSearch
  \/ fspSearchSucceeds
  \/ fspSearchFails
  \/ handleFilterChange
  \/ handleQuickFilter

SearchSpec == SearchInit /\ [][SearchNext]_vars

\* The search page under changing criteria: every criteria is submitted,
\* the answers are few.
CriteriaResults ==
  {NullResults} \cup
  {[isNull |-> FALSE, directFlights |-> <<x>>, transitFlights |-> <<>>] : x \in FlightPool}

fspSearchAny == \E criteria \in Criteria : fspSubmit(criteria)

fspSearchAnswered == \E data \in CriteriaResults : fspAnswered(data)

CriteriaNext ==
  \/ fspSearchAny
  \/ fspSearchAnswered
  \/ fspSearchFails

CriteriaSpec == SearchInit /\ [][CriteriaNext]_vars

\* ------------------------------------------------------------------- Init
Init ==
  /\ authState = LoggedOut
  /\ ls = [token |-> Absent, user |-> NoData]
  /\ path = "/login"
  /\ page = PageInit
  /\ inflight = {}
  /\ calls = 0
  /\ sends = 0
  /\ timer = FALSE
  /\ ev = NoEvent
  /\ fsp = FspInit
  /\ flow = FlowIdle
  /\ pager = PagerIdle

\* --------------------------------------------------------- AuthProvider
\* The synchronous part of initializeAuth(), up to its first await.
\* Gives the auth state, localStorage, and the request issued.
initializeAuth(store) ==
  LET got == getStoredUser(store)
  IN IF Truthy(store.token) /\ got.user # NoUser
     THEN [ctx |-> [user |-> got.user, token |-> store.token,
                    isAuthenticated |-> TRUE, isLoading |-> TRUE],
           store |-> got.store,
           own |-> <<Req("me_init", got.store, 0, got.user)>>]
     ELSE [ctx |-> LoggedOut, store |-> got.store, own |-> <<>>]

\* A full page load of URL p: typed address, F5, or window.location.href.
LoadPage(p, e) ==
  LET i == initializeAuth(ls)
  IN Commit(i.ctx, i.store, p, PageInit, {}, {}, i.own, FALSE, e, TRUE)

Reload(p) ==
  /\ Budget(2)
  /\ LoadPage(p, UiEvent("ui"))

\* The interceptor's timeout fires.
RedirectTimer ==
  /\ timer
  /\ IF path # "/login"
     THEN LoadPage("/login", UiEvent("ui"))
     ELSE /\ timer' = FALSE
          /\ ev' = UiEvent("ui")
          /\ UNCHANGED <<authState, ls, path, page, inflight, calls, sends, fsp, flow, pager>>

\* A link, navigate(), or the history moves the location inside the app.
Navigate(p) ==
  /\ p # path
  /\ Budget(1)
  /\ Commit(authState, ls, p, page, inflight, {}, <<>>, timer, UiEvent("ui"), FALSE)

\* login(credentials), called by the login page for account u.
Login(u) ==
  /\ Mounted = "/login"
  /\ Budget(1)
  /\ Commit([authState EXCEPT !.isLoading = TRUE], ls, path, page, inflight, {},
            <<Req("login", ls, u.id, NoUser)>>, timer, UiEvent("ui"), FALSE)

\* logout(), from the user menu of AppLayout or SideNavigationPanel.
Logout ==
  /\ authState.isAuthenticated
  /\ Mounted \notin ({"none"} \cup PublicPaths)
  /\ Budget(1)
  /\ Commit(authState, ls, path, page, inflight, {},
            <<Req("logout", ls, 0, NoUser)>>, timer, UiEvent("ui"), FALSE)

\* refreshUser(), which useAuth() offers to the screens of a signed-in user.
RefreshUser ==
  /\ authState.isAuthenticated
  /\ Budget(1)
  /\ Commit(authState, ls, path, page, inflight, {},
            <<Req("me_refresh", ls, 0, NoUser)>>, timer, UiEvent("ui"), FALSE)

\* ----------------------------------------------------------------- pages
\* The inline error banner ({error && <Alert>}) is on screen.  BookingPage
\* returns its "Flight not found" card before the banner while flight is null.
BannerShown(p, pg) == pg.error # "" /\ (p = "/book" => pg.flight)

\* FlightSearchPage: isLoadingAirports
isLoadingAirports == \E r \in inflight : r.kind = "airports" /\ r.live

\* FlightSearchPage.handleSearch, from the form's submit button.
Search ==
  /\ Mounted = "/search"
  /\ ~page.isLoading /\ ~isLoadingAirports
  /\ Budget(1)
  /\ Commit(authState, ls, path, [page EXCEPT !.isLoading = TRUE, !.error = ""],
            inflight, {}, <<Req("search", ls, 0, NoUser)>>, timer, UiEvent("ui"), FALSE)

\* FlightSearchResults.handleBookFlight: the book button of a result card.
handleBookFlight(ctx) == IF ctx.user = NoUser THEN "/login" ELSE "/book"

BookButton ==
  /\ Mounted = "/search"
  /\ page.hasSearched /\ ~page.isLoading /\ page.searchResults # 0
  /\ Commit(authState, ls, handleBookFlight(authState), page, inflight, {}, <<>>,
            timer, UiEvent("bookButton"), FALSE)

\* Variant: the request is issued twice.
BookingRequests_Twice(ctx, pg, store) ==
  IF ~pg.flight \/ ctx.user = NoUser THEN <<>>
  ELSE <<[kind |-> "booking", hdr |-> RequestInterceptor(store), arg |-> ctx.user.id, user |-> NoUser],
         [kind |-> "booking", hdr |-> RequestInterceptor(store), arg |-> ctx.user.id, user |-> NoUser]>>

\* BookingPage.handleBookFlight: the requests one activation issues.
BookingRequests(ctx, pg, store) ==
  IF ~pg.flight \/ ctx.user = NoUser THEN <<>>
  ELSE <<Req("booking", store, ctx.user.id, NoUser)>>

BookFlight ==
  /\ Mounted = "/book"
  /\ page.flight /\ ~page.isBooking
  /\ Budget(1)
  /\ LET own == BookingRequests(authState, page, ls)
     IN Commit(authState, ls, path,
               IF own = <<>> THEN page
               ELSE [page EXCEPT !.isBooking = TRUE, !.error = ""],
               inflight, {}, own, timer, UiEvent("bookFlight"), FALSE)

\* UserManagementPage: the dialogs that are on screen.
DeleteDialogShown(pg) == pg.selectedUser # 0 /\ pg.isDeleteDialogOpen
DetailsDialogShown(pg) == pg.selectedUser # 0 /\ pg.isDetailsDialogOpen
RowMenuUsable ==
  /\ Mounted = "/manage/users"
  /\ page.usersLoaded
  /\ ~DeleteDialogShown(page) /\ ~DetailsDialogShown(page)

\* Row menu: View Details
OpenDetails(u) ==
  /\ RowMenuUsable
  /\ Commit(authState, ls, path,
            [page EXCEPT !.selectedUser = u, !.isDetailsDialogOpen = TRUE],
            inflight, {}, <<>>, timer, UiEvent("ui"), FALSE)

CloseDetails ==
  /\ Mounted = "/manage/users" /\ DetailsDialogShown(page)
  /\ Commit(authState, ls, path, [page EXCEPT !.isDetailsDialogOpen = FALSE],
            inflight, {}, <<>>, timer, UiEvent("ui"), FALSE)

\* Row menu: Delete
OpenDelete(u) ==
  /\ RowMenuUsable
  /\ Commit(authState, ls, path,
            [page EXCEPT !.selectedUser = u, !.isDeleteDialogOpen = TRUE],
            inflight, {}, <<>>, timer, UiEvent("ui"), FALSE)

\* DeleteUserDialog: Cancel, Escape or the close button (onOpenChange(false))
CancelDelete ==
  /\ Mounted = "/manage/users" /\ DeleteDialogShown(page)
  /\ Commit(authState, ls, path, [page EXCEPT !.isDeleteDialogOpen = FALSE],
            inflight, {}, <<>>, timer, UiEvent("cancelDelete"), FALSE)

\* Variant: the first row is deleted, whatever the dialog shows.
handleDeleteUser_FirstRow(pg, store) ==
  IF pg.selectedUser = 0 THEN <<>>
  ELSE <<[kind |-> "deleteUser", hdr |-> RequestInterceptor(store), arg |-> 1, user |-> NoUser]>>

\* UserManagementPage.handleDeleteUser: the requests it issues.
handleDeleteUser(pg, store) ==
  IF pg.selectedUser = 0 THEN <<>>
  ELSE <<Req("deleteUser", store, pg.selectedUser, NoUser)>>

\* DeleteUserDialog.handleConfirm: onConfirm(); onOpenChange(false)
ConfirmDelete ==
  /\ Mounted = "/manage/users" /\ DeleteDialogShown(page)
  /\ Budget(1)
  /\ Commit(authState, ls, path, [page EXCEPT !.isDeleteDialogOpen = FALSE],
            inflight, {}, handleDeleteUser(page, ls), timer,
            UiEvent("confirmDelete"), FALSE)

\* BookingService.downloadPassengerManifest: fetch() with its own header.
\* Passenger manifests are an operator/administrator report.
DownloadManifest ==
  /\ Mounted \in RolePaths
  /\ Budget(1)
  /\ Commit(authState, ls, path, page, inflight, {},
            <<[kind |-> "manifest", hdr |-> ManifestHeader(ls), arg |-> 0, user |-> NoUser]>>,
            timer, UiEvent("ui"), FALSE)

\* -------------------------------------------------------------- responses
Outcome(ctx, store, target, pg, own, ui) ==
  [ctx |-> ctx, store |-> store, target |-> target, pg |-> pg, own |-> own, ui |-> ui]

AccountOfId(i) == CHOOSE u \in Accounts : u.id = i

\* Variant: a failed login leaves isLoading as login() set it.
loginDone_StaysLoading(r, st, m, store) ==
  IF st = "ok"
  THEN LET u == AccountOfId(r.arg)
       IN Outcome([user |-> u, token |-> TokenOf(u), isAuthenticated |-> TRUE, isLoading |-> FALSE],
                  [setAuthToken(store, TokenOf(u)) EXCEPT !.user = LoginData(u)],
                  path, page, <<>>, "")
  ELSE Outcome(authState, store, path, page, <<>>,
               IF st = "soft" THEN OrElse(m, "Login failed")
               ELSE OrElse(handleError(st, m), "Login failed"))

\* AuthService.login + AuthContext.login after the await
loginDone(r, st, m, store) ==
  IF st = "ok"
  THEN LET u == AccountOfId(r.arg)
       IN Outcome([user |-> u, token |-> TokenOf(u), isAuthenticated |-> TRUE, isLoading |-> FALSE],
                  [setAuthToken(store, TokenOf(u)) EXCEPT !.user = LoginData(u)],
                  path, page, <<>>, "")
  ELSE Outcome([authState EXCEPT !.isLoading = FALSE], store, path, page, <<>>,
               IF st = "soft" THEN OrElse(m, "Login failed")
               ELSE OrElse(handleError(st, m), "Login failed"))

\* AuthService.logout + AuthContext.logout after the await
logoutDone(r, st, m, store) ==
  Outcome(LoggedOut, removeAuthToken(store), path, page, <<>>, "")

\* Variant: every failed verification clears the session.
initializeAuthDone_ClearsOnError(r, st, m, store) ==
  IF st = "ok"
  THEN LET data == AccountOfToken(r.hdr)
       IN Outcome([user |-> data, token |-> r.hdr, isAuthenticated |-> TRUE, isLoading |-> FALSE],
                  [store EXCEPT !.user = UserData(data)], path, page, <<>>, "")
  ELSE Outcome(LoggedOut, removeAuthToken(store), path, page, <<>>, "")

\* initializeAuth after `await authService.getCurrentUser()`
initializeAuthDone(r, st, m, store) ==
  IF st = "ok"
  THEN LET data == AccountOfToken(r.hdr)
       IN Outcome([user |-> data, token |-> r.hdr, isAuthenticated |-> TRUE, isLoading |-> FALSE],
                  [store EXCEPT !.user = UserData(data)], path, page, <<>>, "")
  ELSE IF st = "soft"
  THEN Outcome(LoggedOut, removeAuthToken(store), path, page, <<>>, "")
  ELSE Outcome([user |-> r.user, token |-> r.hdr, isAuthenticated |-> TRUE, isLoading |-> FALSE],
               store, path, page, <<>>, "")

\* Variant: the refreshed user is taken as proof of a session.
refreshUserDone_Authenticates(r, st, m, store) ==
  IF st = "ok"
  THEN LET data == AccountOfToken(r.hdr)
       IN Outcome([authState EXCEPT !.user = data, !.isAuthenticated = TRUE],
                  [store EXCEPT !.user = UserData(data)], path, page, <<>>, "")
  ELSE Outcome(authState, store, path, page, <<>>, "")

\* refreshUser after the await
refreshUserDone(r, st, m, store) ==
  IF st = "ok"
  THEN LET data == AccountOfToken(r.hdr)
       IN Outcome([authState EXCEPT !.user = data],
                  [store EXCEPT !.user = UserData(data)], path, page, <<>>, "")
  ELSE Outcome(authState, store, path, page, <<>>, "")

\* FlightSearchPage.loadAirports after the await
loadAirportsDone(r, st, m, store) ==
  Outcome(authState, store, path, page, <<>>, "")

\* The text an inline banner shows after the page state became pg.
BannerText(pg) == IF BannerShown(Mounted, pg) THEN pg.error ELSE ""

\* FlightSearchPage.handleSearch after the await
handleSearchDone(r, st, m, store) ==
  LET pg == IF ~r.live THEN page
            ELSE IF st = "ok"
            THEN [page EXCEPT !.searchResults = 1, !.hasSearched = TRUE, !.isLoading = FALSE]
            ELSE IF st = "soft"
            THEN [page EXCEPT !.error = OrElse(m, "Failed to search flights"), !.isLoading = FALSE]
            ELSE [page EXCEPT !.error = OrElse(handleError(st, m), "An error occurred while searching flights"),
                              !.isLoading = FALSE]
  IN Outcome(authState, store, path, pg, <<>>,
             IF r.live /\ st # "ok" THEN BannerText(pg) ELSE "")

\* BookingPage.loadFlightDetails after the await
loadFlightDetailsDone(r, st, m, store) ==
  LET pg == IF ~r.live THEN page
            ELSE IF st = "ok" THEN [page EXCEPT !.flight = TRUE]
            ELSE IF st = "soft"
            THEN [page EXCEPT !.error = OrElse(m, "Failed to load flight details")]
            ELSE [page EXCEPT !.error = OrElse(handleError(st, m), "An error occurred while loading flight details")]
  IN Outcome(authState, store, path, pg, <<>>,
             IF r.live /\ st # "ok" THEN BannerText(pg) ELSE "")

\* BookingPage.handleBookFlight after the await
handleBookFlightDone(r, st, m, store) ==
  LET pg == IF ~r.live THEN page
            ELSE IF st = "ok" THEN [page EXCEPT !.isBooking = FALSE]
            ELSE IF st = "soft"
            THEN [page EXCEPT !.error = OrElse(m, "Failed to book flight"), !.isBooking = FALSE]
            ELSE [page EXCEPT !.error = OrElse(handleError(st, m), "An error occurred while booking the flight"),
                              !.isBooking = FALSE]
  IN Outcome(authState, store, IF st = "ok" THEN "/my-bookings" ELSE path, pg, <<>>,
             IF r.live /\ st # "ok" THEN BannerText(pg) ELSE "")

\* UserManagementPage.loadUsers after the await
loadUsersDone(r, st, m, store) ==
  Outcome(authState, store, path,
          IF r.live /\ st = "ok" THEN [page EXCEPT !.usersLoaded = TRUE] ELSE page,
          <<>>,
          IF st = "ok" THEN "" ELSE "Failed to load users")

\* Variant: a failed deletion is only logged.
handleDeleteUserDone_Silent(r, st, m, store) ==
  IF st = "ok"
  THEN Outcome(authState, store, path,
               IF r.live THEN [page EXCEPT !.isDeleteDialogOpen = FALSE, !.selectedUser = 0]
               ELSE page,
               <<[kind |-> "users", hdr |-> RequestInterceptor(store), arg |-> 0, user |-> NoUser]>>, "")
  ELSE Outcome(authState, store, path, page, <<>>, "")

\* UserManagementPage.handleDeleteUser after the await
handleDeleteUserDone(r, st, m, store) ==
  IF st = "ok"
  THEN Outcome(authState, store, path,
               IF r.live THEN [page EXCEPT !.isDeleteDialogOpen = FALSE, !.selectedUser = 0]
               ELSE page,
               <<Req("users", store, 0, NoUser)>>, "")
  ELSE Outcome(authState, store, path, page, <<>>,
               IF st = "soft" THEN OrElse(m, "Failed to delete user")
               ELSE OrElse(handleError(st, m), "Failed to delete user"))

Handle(r, st, m, store) ==
  CASE r.kind = "login" -> loginDone(r, st, m, store)
    [] r.kind = "logout" -> logoutDone(r, st, m, store)
    [] r.kind = "me_init" -> initializeAuthDone(r, st, m, store)
    [] r.kind = "me_refresh" -> refreshUserDone(r, st, m, store)
    [] r.kind = "airports" -> loadAirportsDone(r, st, m, store)
    [] r.kind = "search" -> handleSearchDone(r, st, m, store)
    [] r.kind = "flight" -> loadFlightDetailsDone(r, st, m, store)
    [] r.kind = "booking" -> handleBookFlightDone(r, st, m, store)
    [] r.kind = "users" -> loadUsersDone(r, st, m, store)
    [] r.kind = "deleteUser" -> handleDeleteUserDone(r, st, m, store)

\* What the backend can answer to a request.
CanAnswer(r, st, m) ==
  /\ st \in {"ok", "net"} => m = ""
  /\ (st = "ok" /\ r.kind \in {"me_init", "me_refresh"}) => r.hdr \in Tokens

\* The answer to an axios request arrives: response interceptor, then the
\* service's and the caller's continuation.
Respond(r, st, m) ==
  /\ r \in inflight
  /\ r.kind # "manifest"
  /\ CanAnswer(r, st, m)
  /\ \E ic \in {IF st \in Thrown
                  THEN ResponseInterceptor(r, st, path, ls, timer)
                  ELSE [store |-> ls, timer |-> timer, resend |-> {}]} :
     \E h \in {Handle(r, st, m, ic.store)} :
        Commit(h.ctx, h.store, h.target, h.pg, inflight \ {r}, ic.resend,
               h.own, ic.timer,
               [name |-> "response", kind |-> r.kind, status |-> st, msg |-> m,
                live |-> r.live, ui |-> h.ui],
               FALSE)

\* The answer to the fetch() of the manifest download arrives.
RespondManifest(r, st) ==
  /\ r \in inflight
  /\ r.kind = "manifest"
  /\ Commit(authState, ls, path, page, inflight \ {r}, {}, <<>>, timer,
            [NoEvent EXCEPT !.name = "manifestResponse", !.kind = "manifest", !.status = st],
            FALSE)

Next ==
  \/ \E p \in Destinations : Reload(p)
  \/ RedirectTimer
  \/ \E p \in Destinations : Navigate(p)
  \/ \E u \in Accounts : Login(u)
  \/ Logout
  \/ RefreshUser
  \/ Search
  \/ BookButton
  \/ BookFlight
  \/ \E u \in UserRows : OpenDetails(u)
  \/ CloseDetails
  \/ \E u \in UserRows : OpenDelete(u)
  \/ CancelDelete
  \/ ConfirmDelete
  \/ DownloadManifest
  \/ \E r \in inflight : \E st \in Statuses : \E m \in Msgs : Respond(r, st, m)
  \/ \E r \in inflight : \E st \in {"ok", "h500"} : RespondManifest(r, st)

Spec == Init /\ [][Next]_vars

\* The interceptor's setTimeout(..., 100) is short against everything else:
\* while the redirect is pending neither the user nor the network acts, and
\* the timeout does fire.
RedirectNext ==
  \/ RedirectTimer
  \/ ~timer /\ Next

RedirectSpec == Init /\ [][RedirectNext]_vars /\ WF_vars(RedirectTimer)

\* axios is created with timeout: 10000, so every request on the wire is
\* settled, by an answer or by an error, and its continuation runs.  The
\* fairness is asked only of the two calls that hold isLoading.
Settled ==
  \E r \in {q \in inflight : q.kind \in {"login", "me_init"}} :
    \E st \in Statuses : \E m \in Msgs : Respond(r, st, m)

LiveSpec == Spec /\ WF_vars(Settled)

TypeOK ==
  /\ authState.user \in Accounts \cup {NoUser}
  /\ authState.token \in Tokens \cup {Absent}
  /\ path \in Paths
  /\ sends <= 2 * MaxReq + 1

\* ------------------------------------------------------------- properties
\* C1: the page content of a route declared with required roles is on
\* screen only when the auth context holds a user whose role is one of the
\* route's required roles; user management is for administrators only.
C1_RoleGated ==
  \A p \in RolePaths :
    ContentShown(p, authState) =>
      /\ authState.user # NoUser
      /\ authState.user.role \in RequiredRoles(p)
      /\ (p = "/manage/users" => authState.user.role = "ADMINISTRATOR")

\* An administrator is looking at the user management page.
C1_Witness ==
  /\ Mounted = "/manage/users"
  /\ authState.user.role = "ADMINISTRATOR"

\* C2: while the auth context is not authenticated no protected route shows
\* its content; once loading has finished the location is not a protected
\* one (the guard redirected), and a book button pressed without a user
\* leads to /login.
C2_NoProtectedContent ==
  ~authState.isAuthenticated =>
    /\ \A p \in ProtectedPaths : ~ContentShown(p, authState)
    /\ (~authState.isLoading => path \notin ProtectedPaths)
    /\ (ev.name = "bookButton" /\ authState.user = NoUser => path = "/login")

\* A visitor without a session pressed a book button and is on /login.
C2_Witness ==
  /\ ev.name = "bookButton"
  /\ authState.user = NoUser
  /\ ~authState.isAuthenticated
  /\ path = "/login"

\* C3: when logout() completes, whatever POST /auth/logout answered, the
\* auth context is the logged-out one and localStorage holds neither
\* auth_token nor user_data.
C3_LogoutTearsDown ==
  (ev.name = "response" /\ ev.kind = "logout") =>
    /\ authState = LoggedOut
    /\ ls.token = Absent
    /\ ls.user = NoData

\* logout() completed although its request got no response.
C3_Witness ==
  /\ ev.name = "response" /\ ev.kind = "logout" /\ ev.status = "net"
  /\ authState = LoggedOut

\* The requests a step puts on the wire.
NewRequests == {r \in inflight' : r.id > sends}

\* C4: a request carries "Authorization: Bearer t" exactly when localStorage
\* holds a non-empty auth_token t at the moment the request is sent; with
\* the token removed no request carries the header.
C4_BearerIffToken ==
  [][\A r \in NewRequests :
       r.hdr = (IF Truthy(ls'.token) THEN ls'.token ELSE "none")]_vars

\* C5: one activation of Book Flight, with a flight loaded and a user
\* present, sends exactly one POST /bookings; nothing else sends one,
\* whatever the answer to the first was.
C5_SinglePost ==
  [][LET posts == {r \in NewRequests : r.kind = "booking"}
     IN /\ (ev'.name = "bookFlight" /\ page.flight /\ authState.user # NoUser)
             => Cardinality(posts) = 1
        /\ ev'.name # "bookFlight" => posts = {}]_vars

\* Book Flight was pressed and its POST is on the wire.
C5_Witness ==
  /\ ev.name = "bookFlight"
  /\ \E r \in inflight : r.kind = "booking" /\ r.live

\* C6: no request is sent again: every service call accounts for exactly
\* one request on the wire and no request in flight is a repetition, a 401
\* having been rejected to the caller like any other failure.
C6_NoRetry ==
  /\ sends = calls
  /\ \A r \in inflight : ~r.retry

\* A 401 has been handed to the caller.
C6_Witness ==
  /\ ev.name = "response" /\ ev.status = "h401"
  /\ sends = calls

ToastKinds == {"login", "users", "deleteUser"}
BannerKinds == {"search", "booking"}
SilentKinds == {"logout", "me_init", "me_refresh", "airports", "flight"}

C8_ServerMessageShown ==
  (ev.name = "response" /\ ev.status \in Failures /\ ev.msg = ServerMsg /\ ev.ui # "")
    => ev.ui = ServerMsg

\* C9: what a role may reach, the roles above it may reach too: routes,
\* header navigation entries and side-panel entries.
RoleOrder == <<"CUSTOMER", "OPERATOR", "ADMINISTRATOR">>
Above(role) ==
  { RoleOrder[j] : j \in { k \in 1..3 : \E i \in 1..3 : RoleOrder[i] = role /\ k > i } }

C9_Cumulative ==
  authState.user # NoUser =>
    \A r2 \in Above(authState.user.role) :
      LET hi == [authState EXCEPT !.user.role = r2]
      IN /\ \A p \in Paths : ContentShown(p, authState) => ContentShown(p, hi)
         /\ \A i \in filteredNavigation(authState) : i \in filteredNavigation(hi)
         /\ \A i \in sideFilteredNavigation(authState) : i \in sideFilteredNavigation(hi)

\* An operator is looking at a staff page.
C9_Witness ==
  /\ authState.isAuthenticated
  /\ authState.user.role = "OPERATOR"
  /\ Mounted = "/reports"

\* C10: a DELETE /users/{id} goes out only in the step in which the Delete
\* User button of the confirmation dialog on screen is pressed, and for the
\* user that dialog shows; cancelling or closing the dialog sends none.
C10_DeleteOnlyOnConfirm ==
  [][LET dels == {r \in NewRequests : r.kind = "deleteUser"}
     IN /\ dels # {} =>
             /\ ev'.name = "confirmDelete"
             /\ DeleteDialogShown(page)
             /\ \A r \in dels : r.arg = page.selectedUser
        /\ ev'.name = "cancelDelete" => dels = {}]_vars

\* The dialog showed user 2, Delete User was pressed, DELETE /users/2 is out.
C10_Witness ==
  /\ ev.name = "confirmDelete"
  /\ \E r \in inflight : r.kind = "deleteUser" /\ r.arg = 2

\* C11: after a search request completed successfully, if the filtered
\* direct and transit results number zero (the response carried no data, or
\* empty lists, or the filters leave nothing), the "No flights found" card
\* is on screen.
C11_EmptyResultCard ==
  (fsp.last = "searchOk" /\ totalResults(fsp.filteredResults) = 0) => NoResultsShown(fsp)

\* A search returned flights, the filters set earlier leave none of them,
\* and the card is shown.
C11_Witness ==
  /\ fsp.last = "searchOk"
  /\ Len(fsp.searchResults.directFlights) > 0
  /\ totalResults(fsp.filteredResults) = 0
  /\ NoResultsShown(fsp)

\* C12: computing the filtered results leaves the stored search results as
\* they were (contents and order of directFlights and transitFlights): only
\* a successful search response changes them; and what is rendered is
\* getFilteredResults of the stored results and the current filters.
C12_FilteringKeepsStoredResults ==
  [][/\ fsp'.last # "searchOk" => fsp'.searchResults = fsp.searchResults
     /\ fsp'.filteredResults = getFilteredResults(fsp'.searchResults, fsp'.filters).result]_vars

\* The stored list is not in departure order, the sort key is departure,
\* and the rendered list differs from the stored one.
C12_Witness ==
  /\ fsp.last = "filter"
  /\ fsp.filters.sortBy = "departure"
  /\ Len(fsp.searchResults.directFlights) = 2
  /\ fsp.searchResults.directFlights[1].departureTime > fsp.searchResults.directFlights[2].departureTime
  /\ fsp.filteredResults.directFlights # fsp.searchResults.directFlights

\* C13: after a successful login, a page reload restores the session: with
\* the auth_token and the user_data login() wrote, initialization takes the
\* stored-session branch and the context is authenticated for the same user.
C13_LoginSessionRestored ==
  [][\A p \in Destinations :
       (Reload(p) /\ ls.user.shape = "login" /\ Truthy(ls.token))
         => (authState'.isAuthenticated /\ authState'.user.id = ls.user.id)]_vars

\* C14: when initialization found a stored token and user and GET /auth/me
\* is rejected (success:false body, or HTTP 401), initialization ends with
\* the logged-out context and with neither auth_token nor user_data stored.
C14_RejectedTokenClearsAuth ==
  (ev.name = "response" /\ ev.kind = "me_init" /\ ev.status \in {"soft", "h401"})
    => (authState = LoggedOut /\ ls.token = Absent /\ ls.user = NoData)

\* C15: in every state of the auth context, isAuthenticated is true exactly
\* when user and token are both non-null.
C15_AuthenticatedIffUserAndToken ==
  authState.isAuthenticated <=> (authState.user # NoUser /\ authState.token # Absent)

\* A refreshUser response arrived after logout had completed: the context
\* has a user again, but no token and isAuthenticated false.
C15_Witness ==
  /\ ev.name = "response" /\ ev.kind = "me_refresh" /\ ev.status = "ok"
  /\ authState.user # NoUser
  /\ ~authState.isAuthenticated

\* C16: whenever the context is authenticated and no login, logout or
\* initialization is in progress, localStorage holds an auth_token and it is
\* the token of the context.
C16_ContextAgreesWithStore ==
  (/\ authState.isAuthenticated
   /\ ~authState.isLoading
   /\ ~\E r \in inflight : r.kind \in {"login", "logout", "me_init"})
    => (Truthy(ls.token) /\ ls.token = authState.token)

\* The step is the arrival of an HTTP 401.
Got401 == ev'.name = "response" /\ ev'.status = "h401"

C18_NetworkErrorKeepsAuth ==
  [][(ev'.name = "response" /\ ev'.kind = "me_init" /\ ev'.status = "net")
       => /\ ls' = ls
          /\ \E r \in inflight \ inflight' :
               /\ r.kind = "me_init"
               /\ authState' = [user |-> r.user, token |-> r.hdr,
                                isAuthenticated |-> TRUE, isLoading |-> FALSE]]_vars

\* The verification failed on the network and the stored session is kept.
C18_Witness ==
  /\ ev.name = "response" /\ ev.kind = "me_init" /\ ev.status = "net"
  /\ authState.isAuthenticated
  /\ ~authState.isLoading
  /\ authState.token = ls.token
  /\ ls.user = UserData(authState.user)

\* C19: when a login succeeds, the user is on a page whose content their
\* role may see, and not on /unauthorized.
C19_LoginLandsOnAuthorizedPage ==
  (ev.name = "response" /\ ev.kind = "login" /\ ev.status = "ok")
    => (path # "/unauthorized" /\ ContentShown(path, authState))

\* C20: isLoading always returns to false, after the start of the
\* application and after every login attempt.
C20_LoadingEnds == authState.isLoading ~> ~authState.isLoading

\* A login attempt was refused and isLoading is false again.
C20_Witness ==
  /\ ev.name = "response" /\ ev.kind = "login" /\ ev.status \in Failures
  /\ ~authState.isLoading
  /\ ~authState.isAuthenticated

\* C21: whenever search results are on screen (search performed, not
\* loading, results stored), they are the server's answer to the criteria
\* the results header shows.
C21_ResultsMatchHeader ==
  (fsp.hasSearched /\ ~fsp.isLoading /\ ~fsp.searchResults.isNull)
    => fsp.resultsFor = fsp.searchCriteria

\* What each quick filter is to set, every other field kept.
QuickFilterSets(filters, name) ==
  CASE name = "Cheapest Economy" -> [filters EXCEPT !.sortBy = "price", !.seatClass = "ECONOMY"]
    [] name = "Fastest Direct" -> [filters EXCEPT !.sortBy = "duration", !.maxStops = 0]
    [] name = "Business Class" -> [filters EXCEPT !.seatClass = "BUSINESS", !.sortBy = "departure"]

\* C24: pressing a quick filter applies both of its settings and keeps
\* every other filter field.
C24_QuickFilterAppliesBoth ==
  [][\A name \in QuickFilters :
       fsp'.last = name => fsp'.filters = QuickFilterSets(fsp.filters, name)]_vars

\* A direct flight satisfies every criterion that is set.
Qualifies(x, f) ==
  /\ f.maxPrice > 0 =>
        (CASE f.seatClass = "FIRST" -> x.firstClassPrice
           [] f.seatClass = "BUSINESS" -> x.businessClassPrice
           [] OTHER -> x.economyClassPrice) <= f.maxPrice
  /\ f.seatClass = "ECONOMY" => x.availableEconomyClassSeats > 0
  /\ f.seatClass = "BUSINESS" => x.availableBusinessClassSeats > 0
  /\ f.seatClass = "FIRST" => x.availableFirstClassSeats > 0
  /\ (f.departureTimeRange.start # -1 /\ f.departureTimeRange.end # -1) =>
        /\ x.departureTime % 24 >= f.departureTimeRange.start
        /\ x.departureTime % 24 <= f.departureTimeRange.end

Items(arr) == {arr[i] : i \in 1..Len(arr)}

\* C25: the displayed direct flights are exactly the stored direct flights
\* that satisfy every set criterion: none dropped, none kept wrongly, none
\* twice.
C25_ExactlyTheQualifying ==
  ~fsp.searchResults.isNull =>
    /\ Items(fsp.filteredResults.directFlights)
         = {x \in Items(fsp.searchResults.directFlights) : Qualifies(x, fsp.filters)}
    /\ Len(fsp.filteredResults.directFlights)
         = Cardinality(Items(fsp.filteredResults.directFlights))

\* A price limit is set, and of two stored flights one is displayed.
C25_Witness ==
  /\ fsp.last = "filter"
  /\ fsp.hasSearched /\ ~fsp.isLoading
  /\ fsp.filters.maxPrice > 0
  /\ Len(fsp.searchResults.directFlights) = 2
  /\ Len(fsp.filteredResults.directFlights) = 1

\* The sort key the claim names.
KeyOf(x, f) ==
  CASE f.sortBy = "price" ->
         (CASE f.seatClass = "FIRST" -> x.firstClassPrice
            [] f.seatClass = "BUSINESS" -> x.businessClassPrice
            [] OTHER -> x.economyClassPrice)
    [] f.sortBy = "departure" -> x.departureTime
    [] f.sortBy = "duration" -> x.arrivalTime - x.departureTime

\* C26: the displayed direct flights are in non-decreasing order of the
\* selected sort key.
C26_SortedBySelectedKey ==
  \A i \in 1..(Len(fsp.filteredResults.directFlights) - 1) :
    KeyOf(fsp.filteredResults.directFlights[i], fsp.filters)
      <= KeyOf(fsp.filteredResults.directFlights[i + 1], fsp.filters)

\* Two flights are displayed by duration, in the opposite order of the
\* stored results.
C26_Witness ==
  /\ fsp.hasSearched /\ ~fsp.isLoading
  /\ fsp.filters.sortBy = "duration"
  /\ Len(fsp.filteredResults.directFlights) = 2
  /\ Len(fsp.searchResults.directFlights) = 2
  /\ fsp.filteredResults.directFlights[1] = fsp.searchResults.directFlights[2]
  /\ KeyOf(fsp.filteredResults.directFlights[1], fsp.filters)
       < KeyOf(fsp.filteredResults.directFlights[2], fsp.filters)

\* The seats a booking request accounts for: CreateBookingForm has no
\* passenger count, and a Booking has one seatNumber.
SeatsOf(request) == 1

RECURSIVE SeatsRequested(_)
SeatsRequested(reqs) ==
  IF reqs = <<>> THEN 0 ELSE SeatsOf(Head(reqs)) + SeatsRequested(Tail(reqs))

\* C22: when the booking page shows N passengers and N times the price,
\* confirming the booking sends requests that account for N seats.
C22_BookingCoversPassengers ==
  flow.isBooking => SeatsRequested(flow.requests) = bookingPassengers(flow)

\* C23: the booking flow is never entered for a flight that is cancelled
\* or has fewer seats in the searched class than passengers asked for, be
\* it a direct flight or a leg of a transit option.
C23_OnlyBookableFlights ==
  flow.at = "book" =>
    \A i \in 1..Len(flow.legs) :
      /\ flow.legs[i].status # "CANCELLED"
      /\ SeatsFor(flow.legs[i], flow.searchCriteria.seatClass) >= flow.searchCriteria.passengers

\* C27: on every paginated list page the current page number stays
\* between 1 and the number of pages, Previous never increases it and Next
\* never decreases it.
C27_PageWithinRange ==
  /\ [](pager.currentPage >= 1 /\ pager.currentPage <= pager.totalPages)
  /\ [][/\ pager'.last = "previous" => pager'.currentPage <= pager.currentPage
        /\ pager'.last = "next" => pager'.currentPage >= pager.currentPage]_vars

====
